---- MODULE Spec2Model ----
(***************************************************************************)
(* Model of the XML date reconciliation tool: XMLProcessor                 *)
(* (load_reference_data, process_xml_file, apply_changes) and the desktop  *)
(* surface that drives it (_process_files_thread, PreviewWindow).          *)
(*                                                                         *)
(* A Python str is a sequence of atoms.  An atom is either one whitespace  *)
(* character (" " or "\t") or a maximal piece of non-whitespace text such  *)
(* as "2024-03-01" or "00:00:00"; str.strip and str.split are computed on  *)
(* that sequence the way Python computes them on the characters.           *)
(***************************************************************************)
EXTENDS Integers, Sequences, FiniteSets, TLC

VARIABLES
    fs,              \* original documents on disk: path -> content
    reference_data,  \* XMLProcessor.reference_data: expression -> [file, date]
    out_dir,         \* files created in output_dir by mkstemp: sequence of contents
    backup_dir,      \* files of backup_dir: base filename -> content
    log,             \* the log file apply_changes opened last: its entries
    xlsx,            \* the workbook at the path of the last load_reference_data call
    load_ret,        \* what that call returned: "True", "False", "raise" ("none" before)
    xml_files,       \* XMLProcessorApp.xml_files
    processed_files, \* XMLProcessorApp.processed_files
    changes_made,    \* XMLProcessorApp.changes_made
    loop_i,          \* _process_files_thread: index of the next document (0: no loop yet)
    apply_i,         \* apply_changes: index of the next pair
    apply_ret,       \* what the last apply_changes call did: "none", "True", "False", "raise"
    pc,              \* position of the surface
    is_loading_xlsx, \* XMLProcessorApp.is_loading_xlsx
    process_button,  \* state of the Process button: "normal" or "disabled"
    load_pc,         \* position of the thread _load_xlsx_thread ("idle": none runs)
    load_i,          \* that thread's next sheet or row of the workbook
    draft_src,       \* history: for each file of out_dir, the document it was made from
    last_ret,        \* history: the last return of process_xml_file
    last_in,         \* history: the arguments and the files of that call
    events,          \* history: the copies of the current apply_changes call
    batch_hist,      \* history: the process_xml_file calls of the current batch
    hist,            \* history: the changes returned per document since the last load or commit
    batches,         \* history: the batches started
    failures,        \* history: the IO failures injected
    changes_keys,    \* the keys of changes_made in insertion order
    apply_msg,       \* the count in the message apply_changes returned last (None: none)
    reference_data_loaded, \* st.session_state.reference_data_loaded
    pre_commit,      \* history: the originals when the last apply_changes call began
    loop2_i          \* a second _process_files_thread: index of its next document (0: none)

files == <<fs, out_dir, backup_dir, log>>
surface == <<xml_files, processed_files, changes_made, loop_i, apply_i, apply_ret,
            events, batch_hist>>
loader == <<reference_data, xlsx, load_ret>>
calls == <<draft_src, last_ret, last_in, hist>>
bounded == <<batches, failures>>
threads == <<is_loading_xlsx, process_button, load_pc, load_i>>
session == <<changes_keys, apply_msg, reference_data_loaded, pre_commit>>
vars == <<files, surface, loader, calls, bounded, threads, session, loop2_i, pc>>

----------------------------------------------------------------------------
(* Bounds *)

MaxLen == 3      \* longest attribute value / reference date, in atoms
MaxElems == 2    \* most elements in one document
MaxFiles == 2    \* documents in the input directory
MaxItems == 5    \* sheets plus rows of one workbook
MaxBatches == 2  \* batches of one session
MaxFailures == 1 \* IO failures the environment injects in one session

----------------------------------------------------------------------------
(* Python strings *)

Whitespace == {" ", "\t"}

Range(s) == {s[i] : i \in 1..Len(s)}

RECURSIVE LStrip(_)
LStrip(s) == IF s # <<>> /\ Head(s) \in Whitespace THEN LStrip(Tail(s)) ELSE s

RECURSIVE RStrip(_)
RStrip(s) ==
    IF s # <<>> /\ s[Len(s)] \in Whitespace
    THEN RStrip(SubSeq(s, 1, Len(s) - 1))
    ELSE s

\* str.strip()
Strip(s) == RStrip(LStrip(s))

RECURSIVE TakeToken(_)
TakeToken(s) ==
    IF s = <<>> \/ Head(s) \in Whitespace
    THEN <<>>
    ELSE <<Head(s)>> \o TakeToken(Tail(s))

\* str.split()[0]: the first run of non-whitespace text (only used on
\* strings that hold one)
SplitFirst(s) == TakeToken(LStrip(s))

StrUpTo(alphabet, n) == UNION {[1..k -> alphabet] : k \in 0..n}

----------------------------------------------------------------------------
(* Documents *)

XmlDoc(elems) == [ok |-> TRUE, elems |-> elems]
Unparseable == [ok |-> FALSE, elems |-> <<>>]

\* Element.get(key, default)
Get(elem, key, default) ==
    IF key \in DOMAIN elem.attrs THEN elem.attrs[key] ELSE default

Elem(tag, attrs) == [tag |-> tag, attrs |-> attrs]

\* The input directory holds MaxFiles documents.  A path is the string of its
\* base filename: every document lies in the one directory xml_path_var names.
FileNames == <<"a.xml", "b.xml", "c.xml", "d.xml">>
XmlFiles == {<<FileNames[i]>> : i \in 1..MaxFiles}

\* os.path.basename
BaseName(path) == path

\* Python's None, for a draft path (drafts are numbered 1, 2, ... in the
\* order mkstemp creates them)
None == 0

----------------------------------------------------------------------------
(* XMLProcessor.process_xml_file *)

\* new_date: the reference date without its time of day
NewDate(ref_date) ==
    LET new_date == Strip(ref_date)
    IN  IF " " \in Range(new_date) THEN SplitFirst(new_date) ELSE new_date

\* old_date: the element's current value
OldDateRaw(elem) == Get(elem, "startEffectiveDate", <<>>)
OldDate(elem) == Strip(Get(elem, "startEffectiveDate", <<>>))

\* old_date_part
OldDatePartWhole(old_date) == old_date
OldDatePart(old_date) ==
    IF " " \in Range(old_date) THEN SplitFirst(old_date) ELSE old_date

\* ref_file != xml_base_filename: continue
AnyFile(ref_file, xml_base_filename) == TRUE
ForThisFile(ref_file, xml_base_filename) == ref_file = xml_base_filename

\* the element is one the loop looks at and the table has its expression
FoundAnyTag(elem, ref) ==
    /\ Get(elem, "expression", <<>>) # <<>>
    /\ Get(elem, "expression", <<>>) \in DOMAIN ref
Found(elem, ref) ==
    /\ elem.tag = "lrvalueadd"
    /\ Get(elem, "expression", <<>>) # <<>>
    /\ Get(elem, "expression", <<>>) \in DOMAIN ref

\* One pass of the loop body: the element afterwards and the changes appended
ReconcileElem(elem, ref, xml_base_filename) ==
    LET expression == Get(elem, "expression", <<>>)
        same == [elem |-> elem, changes |-> <<>>]
    IN  IF ~Found(elem, ref) THEN same
        ELSE IF ~ForThisFile(ref[expression].file, xml_base_filename) THEN same
        ELSE LET new_date == NewDate(ref[expression].date)
                 old_date == OldDate(elem)
             IN  IF OldDatePart(old_date) = new_date THEN same
                 ELSE [elem |-> [elem EXCEPT !.attrs =
                                    [k \in DOMAIN elem.attrs \cup {"startEffectiveDate"} |->
                                        IF k = "startEffectiveDate"
                                        THEN new_date ELSE elem.attrs[k]]],
                       changes |-> <<[expression |-> expression,
                                      attribute |-> "startEffectiveDate",
                                      old_value |-> old_date,
                                      new_value |-> new_date]>>]

\* The loop over root.findall(".//lrvalueadd"), in document order
RECURSIVE ReconcileAll(_, _, _)
ReconcileAll(elems, ref, xml_base_filename) ==
    IF elems = <<>> THEN [elems |-> <<>>, changes |-> <<>>]
    ELSE LET h == ReconcileElem(Head(elems), ref, xml_base_filename)
             t == ReconcileAll(Tail(elems), ref, xml_base_filename)
         IN  [elems |-> <<h.elem>> \o t.elems, changes |-> h.changes \o t.changes]

\* What a call may meet: nothing, ET.parse failing on a readable document's
\* file, mkstemp failing, tree.write failing after mkstemp made the file
IoOutcomes == {"ok", "read", "mkstemp", "write"}

\* "if not changes: return None, []"
WritesNoOpDraft(changes) == FALSE
NothingToDo(changes) == changes = <<>>

\* The original after the call: the tree is written to temp_file only
WrittenInPlace(xml_file, doc) == [fs EXCEPT ![xml_file] = doc]
OriginalsAfterProcess(xml_file, doc) == fs

\* The except clause: log and return None, []
ProcessRaises(xml_file) ==
    [temp_file |-> None, changes |-> <<>>, out_dir |-> out_dir, fs |-> fs,
     caught |-> FALSE, raised |-> TRUE]
ProcessFailed(xml_file) ==
    [temp_file |-> None, changes |-> <<>>, out_dir |-> out_dir, fs |-> fs,
     caught |-> TRUE, raised |-> FALSE]

\* process_xml_file(xml_file, output_dir) under the outcome io: what it
\* returns and the files afterwards
process_xml_file(xml_file, io) ==
    LET failed == ProcessFailed(xml_file)
    IN  IF io = "read" \/ ~fs[xml_file].ok THEN failed
        ELSE LET r == ReconcileAll(fs[xml_file].elems, reference_data, BaseName(xml_file))
             IN  IF NothingToDo(r.changes)
                 THEN [temp_file |-> None, changes |-> <<>>, out_dir |-> out_dir,
                       fs |-> fs, caught |-> FALSE, raised |-> FALSE]
                 ELSE IF io = "mkstemp" THEN failed
                 ELSE IF io = "write"
                 THEN [failed EXCEPT !.out_dir = Append(out_dir, Unparseable)]
                 ELSE [temp_file |-> Len(out_dir) + 1,
                       changes |-> r.changes,
                       out_dir |-> Append(out_dir, XmlDoc(r.elems)),
                       fs |-> OriginalsAfterProcess(xml_file, XmlDoc(r.elems)),
                       caught |-> FALSE, raised |-> FALSE]

----------------------------------------------------------------------------
(* XMLProcessor.load_reference_data *)

\* A cell as pandas hands it over: a str, a Timestamp (a date cell), a
\* number or NaN (an empty cell)
StrCell(s) == [kind |-> "str", str |-> s]
TimestampCell(date, time) == [kind |-> "Timestamp", date |-> date, time |-> time]
NumberCell(digits) == [kind |-> "number", digits |-> digits]
NaNCell == [kind |-> "nan"]

\* str(cell)
PyStr(cell) ==
    CASE cell.kind = "str" -> cell.str
      [] cell.kind = "Timestamp" -> <<cell.date, " ", cell.time>>
      [] cell.kind = "number" -> <<cell.digits>>
      [] cell.kind = "nan" -> <<"nan">>

\* pd.isna(src_date), src_date being the str made of the cell
IsNa(src_date) == FALSE

EmptyTable == [e \in {} |-> [file |-> <<>>, date |-> <<>>]]

\* The body of the loop over df.iterrows().  A row holds its cells under the
\* column they stand in: the expression, the base filename, the date.
AddRow(ref, row) ==
    LET expression == Strip(PyStr(row.Expression))
        base_file == Strip(PyStr(row.BaseFilename))
        src_date == Strip(PyStr(row.SrcDate))
    IN  IF expression = <<>> \/ base_file = <<>> \/ IsNa(src_date) THEN ref
        ELSE [e \in DOMAIN ref \cup {expression} |->
                 IF e = expression
                 THEN [file |-> base_file, date |-> src_date]
                 ELSE ref[e]]

\* required_columns
RequiredColumns == {"Expression", "BaseFilename", "SrcDate"}

\* A workbook is read in order: each sheet mark opens a sheet, the rows after
\* it are that sheet's.  A sheet has the names of its columns, and
\* pd.read_excel either reads it or raises on it.
Sheet(columns, readable) == [sheet |-> readable, columns |-> columns]
IsMark(item) == "sheet" \in DOMAIN item

\* usecols=lambda x: x in required_columns
UseCols(columns) == columns \cap RequiredColumns

\* The sheet was read and "all(col in df.columns for col in required_columns)"
SheetRead(mark) == mark.sheet /\ RequiredColumns \subseteq UseCols(mark.columns)

\* The sheets of the workbooks: one with the required columns, one whose
\* columns are named Work, File and SRCDate, one that lacks BaseFilename, one
\* pd.read_excel raises on
SheetMarks ==
    {Sheet(RequiredColumns, TRUE), Sheet({"Work", "File", "SRCDate"}, TRUE),
     Sheet({"Expression", "SrcDate"}, TRUE), Sheet(RequiredColumns, FALSE)}

\* "continue" after a sheet that lacks a column or raised: the loop goes on
\* with what follows it
StopAtBadSheet(rest) == <<>>
AfterBadSheet(rest) == rest

RECURSIVE LoadItems(_, _, _)
LoadItems(ref, items, reading) ==
    IF items = <<>> THEN ref
    ELSE IF IsMark(Head(items))
    THEN IF SheetRead(Head(items))
         THEN LoadItems(ref, Tail(items), TRUE)
         ELSE LoadItems(ref, AfterBadSheet(Tail(items)), FALSE)
    ELSE LoadItems(IF reading THEN AddRow(ref, Head(items)) ELSE ref,
                   Tail(items), reading)

Workbook(items) == [exists |-> TRUE, readable |-> TRUE, items |-> items]
UnreadableWorkbook == [exists |-> TRUE, readable |-> FALSE, items |-> <<>>]

\* "self.reference_data = {}" once the workbook is open
KeepTable(old) == old
ResetTable(old) == EmptyTable

\* total_entries == 0: return False, else True
LoadResult(table) == IF Cardinality(DOMAIN table) = 0 THEN "False" ELSE "True"

\* load_reference_data(xlsx_file): the table afterwards and the return
load_reference_data(wb) ==
    IF ~wb.readable
    THEN [reference_data |-> reference_data, ret |-> "raise"]
    ELSE LET table == LoadItems(ResetTable(reference_data), wb.items, FALSE)
         IN  [reference_data |-> table, ret |-> LoadResult(table)]

----------------------------------------------------------------------------
(* State shared by the specifications *)

NoCall == [temp_file |-> None, changes |-> <<>>, caught |-> FALSE, raised |-> FALSE]
NoInput == [xml_file |-> <<>>, doc |-> Unparseable, ref |-> EmptyTable,
            io |-> "ok", out_len |-> 0]
NoChanges == [f \in {} |-> <<>>]
NoFiles == [f \in {} |-> Unparseable]
\* xlsx_path_var before any Browse
NoWorkbook == [exists |-> FALSE, readable |-> FALSE, items |-> <<>>]

\* No call recorded for any document
NoHist == [f \in XmlFiles |-> [calls |-> 0, changes |-> <<>>]]

\* XMLProcessorApp.__init__ and XMLProcessor.__init__
InitSurface ==
    /\ xml_files = <<>>
    /\ processed_files = <<>>
    /\ changes_made = NoChanges
    /\ loop_i = 0
    /\ apply_i = 0
    /\ apply_ret = "none"
    /\ events = <<>>
    /\ batch_hist = <<>>
    /\ is_loading_xlsx = FALSE
    /\ process_button = "normal"
    /\ load_pc = "idle"
    /\ load_i = 0
    /\ changes_keys = <<>>
    /\ apply_msg = None
    /\ reference_data_loaded = FALSE
    /\ pre_commit = fs
    /\ loop2_i = 0

InitCalls ==
    /\ draft_src = <<>>
    /\ last_ret = NoCall
    /\ last_in = NoInput
    /\ hist = NoHist
    /\ batches = 0
    /\ failures = 0

\* One call of process_xml_file(xml_file, output_dir), meeting outcome io
CallProcess(xml_file, io) ==
    LET r == process_xml_file(xml_file, io)
    IN  /\ fs' = r.fs
        /\ out_dir' = r.out_dir
        /\ draft_src' = IF Len(r.out_dir) > Len(out_dir)
                        THEN Append(draft_src, xml_file) ELSE draft_src
        /\ last_ret' = [temp_file |-> r.temp_file, changes |-> r.changes,
                        caught |-> r.caught, raised |-> r.raised]
        /\ last_in' = [xml_file |-> xml_file, doc |-> fs[xml_file],
                       ref |-> reference_data, io |-> io, out_len |-> Len(out_dir)]
        /\ hist' = IF r.caught /\ fs[xml_file].ok
                   THEN hist
                   ELSE [hist EXCEPT ![xml_file] =
                            [calls |-> IF @.calls = 0 THEN 1 ELSE 2,
                             changes |-> r.changes]]

----------------------------------------------------------------------------
(* SpecRecon: one call of process_xml_file on every document and table of *)
(* the bounded sets below                                                 *)

D1 == "2024-03-01"
D2 == "2023-01-01"
T0 == "00:00:00"
EXPR1 == <<"EXPR1">>
EXPR2 == <<"EXPR2">>

DateAlphabet == {D1, D2, " ", "\t"}
DateStrings == StrUpTo(DateAlphabet, MaxLen)
\* the dates a table can hold: load_reference_data stores them stripped
TableDates == {Strip(s) : s \in DateStrings}

\* (A) one element of the table's expression, any attribute value, any date
OneElementDocs ==
    {XmlDoc(<<Elem("lrvalueadd", [expression |-> EXPR1, startEffectiveDate |-> v])>>) :
        v \in DateStrings}
    \cup {XmlDoc(<<Elem("lrvalueadd", [expression |-> EXPR1])>>)}
OneEntryTables ==
    {[e \in {EXPR1} |-> [file |-> <<FileNames[1]>>, date |-> d]] : d \in TableDates}

\* (B) documents of up to MaxElems elements, tables of up to two entries
SmallDates == {<<D1>>, <<D2, " ", T0>>}
SmallElems ==
    {Elem("lrvalueadd", [expression |-> e, startEffectiveDate |-> v]) :
        e \in {<<>>, EXPR1, EXPR2}, v \in SmallDates}
    \cup {Elem("lrvalueadd", [expression |-> e]) : e \in {EXPR1, EXPR2}}
    \cup {Elem("lrvalueadd", [startEffectiveDate |-> v]) : v \in SmallDates}
    \cup {Elem("other", [expression |-> EXPR1, startEffectiveDate |-> <<D2>>])}
SmallDocs == {XmlDoc(es) : es \in StrUpTo(SmallElems, MaxElems)} \cup {Unparseable}
SmallEntries == {[file |-> f, date |-> d] : f \in XmlFiles, d \in {<<D1>>, <<D1, " ", T0>>}}
SmallTables ==
    UNION {[es -> SmallEntries] : es \in SUBSET {EXPR1, EXPR2}}

InitRecon ==
    /\ \E doc \in OneElementDocs \cup SmallDocs :
          /\ fs = [f \in XmlFiles |-> doc]
          /\ reference_data \in (IF doc \in SmallDocs THEN SmallTables ELSE OneEntryTables)
    /\ out_dir = <<>>
    /\ backup_dir = NoFiles
    /\ log = <<>>
    /\ xlsx = NoWorkbook
    /\ load_ret = "none"
    /\ InitSurface
    /\ InitCalls
    /\ pc = "call"

ReconCall(xml_file, io) ==
    /\ pc = "call"
    /\ CallProcess(xml_file, io)
    /\ pc' = "returned"
    /\ UNCHANGED <<loop2_i, threads, session, backup_dir, log, surface, loader, bounded>>

NextRecon == \E xml_file \in XmlFiles, io \in IoOutcomes : ReconCall(xml_file, io)

SpecRecon == InitRecon /\ [][NextRecon]_vars

----------------------------------------------------------------------------
(* SpecLoad: load_reference_data on every workbook of at most MaxItems    *)
(* sheets and rows, then once more on the same workbook                   *)

SERIAL1 == "45352"      \* the serial number of 2024-03-01

Row(expression, base_file, src_date) ==
    [Expression |-> expression, BaseFilename |-> base_file, SrcDate |-> src_date]

RowChoices ==
    { Row(StrCell(EXPR1), StrCell(<<"a.xml">>), StrCell(<<D1>>)),
      Row(StrCell(<<" ", "EXPR1", " ">>), StrCell(<<"b.xml">>), NumberCell(SERIAL1)),
      Row(StrCell(EXPR2), StrCell(<<"b.xml">>), TimestampCell(D2, T0)),
      Row(NaNCell, StrCell(<<"a.xml">>), StrCell(<<D1>>)),
      Row(StrCell(EXPR2), StrCell(<<"a.xml">>), NaNCell),
      Row(StrCell(<<" ">>), StrCell(<<"a.xml">>), StrCell(<<D1>>)),
      Row(StrCell(EXPR2), StrCell(<<" ">>), StrCell(<<D2>>)) }

\* The sheets and rows that follow the first sheet of a workbook
Rests == StrUpTo(RowChoices \cup SheetMarks, MaxItems - 1)

\* Every workbook opens its first sheet before its first row
Workbooks(mark) ==
    {Workbook(<<mark>> \o rest) : rest \in Rests} \cup {Workbook(<<>>), UnreadableWorkbook}

\* A table left by an earlier load
EarlierTable == [e \in {<<"EXPR0">>} |-> [file |-> <<"a.xml">>, date |-> <<D2>>]]

InitLoad ==
    /\ reference_data \in {EmptyTable, EarlierTable}
    /\ fs = [f \in XmlFiles |-> XmlDoc(<<>>)]
    /\ out_dir = <<>>
    /\ backup_dir = NoFiles
    /\ log = <<>>
    /\ xlsx = NoWorkbook
    /\ load_ret = "none"
    /\ InitSurface
    /\ InitCalls
    /\ pc = "load"

\* load_reference_data(xlsx_file) on the workbook wb
CallLoad(wb) ==
    LET r == load_reference_data(wb)
    IN  /\ reference_data' = r.reference_data
        /\ load_ret' = r.ret
        /\ xlsx' = wb

LoadCall ==
    /\ pc = "load"
    /\ \E mark \in SheetMarks : \E wb \in Workbooks(mark) : CallLoad(wb)
    /\ pc' = "loaded"
    /\ UNCHANGED <<loop2_i, threads, session, files, surface, calls, bounded>>

LoadAgain ==
    /\ pc = "loaded"
    /\ CallLoad(xlsx)
    /\ pc' = "reloaded"
    /\ UNCHANGED <<loop2_i, threads, session, files, surface, calls, bounded>>

NextLoad == LoadCall \/ LoadAgain

SpecLoad == InitLoad /\ [][NextLoad]_vars

----------------------------------------------------------------------------
(* XMLProcessor.apply_changes *)

\* What the pair i of the loop may meet: nothing, a failing write to the
\* log, a failing backup copy (leaving nothing or a partial backup file), a
\* failing copy over the original (leaving it as it was or partly written)
PairOutcomes ==
    {"ok", "log", "backup", "backup_partial", "overwrite", "overwrite_partial"}

CopyEvent(op, i, ok) ==
    [op |-> op, index |-> i, orig |-> xml_files[i], draft |-> processed_files[i],
     ok |-> ok, before |-> fs[xml_files[i]]]

\* What the pair i writes to the log: "File: file_name" and the changes of
\* changes_made.get(original_file, [])
LogEntry(i) ==
    [file |-> BaseName(xml_files[i]),
     changes |-> IF xml_files[i] \in DOMAIN changes_made
                 THEN changes_made[xml_files[i]] ELSE <<>>]

\* A loop body that replaces the original before it makes the backup
apply_pair_overwrite_first(i, outcome) ==
    LET original_file == xml_files[i]
        file_name == BaseName(original_file)
        backed_up == [f \in DOMAIN backup_dir \cup {file_name} |->
                         IF f = file_name THEN out_dir[processed_files[i]]
                         ELSE backup_dir[f]]
    IN  [fs |-> [fs EXCEPT ![original_file] = out_dir[processed_files[i]]],
         backup_dir |-> backed_up,
         log |-> Append(log, LogEntry(i)),
         events |-> events \o <<CopyEvent("overwrite", i, TRUE), CopyEvent("backup", i, TRUE)>>,
         ret |-> "next"]

\* The body of "for i, processed_file in enumerate(processed_files)" under
\* the outcome: the files afterwards, the copies made, and whether the loop
\* goes on ("next") or the except clause returns False
apply_pair(i, outcome) ==
    LET original_file == xml_files[i]
        file_name == BaseName(original_file)
        with_backup(content) ==
            [f \in DOMAIN backup_dir \cup {file_name} |->
                IF f = file_name THEN content ELSE backup_dir[f]]
        backed_up == with_backup(fs[original_file])
    IN  CASE outcome = "log" ->
                [fs |-> fs, backup_dir |-> backup_dir, log |-> log, events |-> events,
                 ret |-> "False"]
          [] outcome = "backup" ->
                [fs |-> fs, backup_dir |-> backup_dir,
                 log |-> Append(log, LogEntry(i)),
                 events |-> Append(events, CopyEvent("backup", i, FALSE)),
                 ret |-> "False"]
          [] outcome = "backup_partial" ->
                [fs |-> fs, backup_dir |-> with_backup(Unparseable),
                 log |-> Append(log, LogEntry(i)),
                 events |-> Append(events, CopyEvent("backup", i, FALSE)),
                 ret |-> "False"]
          [] outcome = "overwrite" ->
                [fs |-> fs, backup_dir |-> backed_up,
                 log |-> Append(log, LogEntry(i)),
                 events |-> events \o <<CopyEvent("backup", i, TRUE),
                                        CopyEvent("overwrite", i, FALSE)>>,
                 ret |-> "False"]
          [] outcome = "overwrite_partial" ->
                [fs |-> [fs EXCEPT ![original_file] = Unparseable],
                 log |-> Append(log, LogEntry(i)),
                 backup_dir |-> backed_up,
                 events |-> events \o <<CopyEvent("backup", i, TRUE),
                                        CopyEvent("overwrite", i, FALSE)>>,
                 ret |-> "False"]
          [] outcome = "ok" ->
                [fs |-> [fs EXCEPT ![original_file] = out_dir[processed_files[i]]],
                 log |-> Append(log, LogEntry(i)),
                 backup_dir |-> backed_up,
                 events |-> events \o <<CopyEvent("backup", i, TRUE),
                                        CopyEvent("overwrite", i, TRUE)>>,
                 ret |-> "next"]

\* What the start of the call may meet: nothing, os.makedirs(log_dir)
\* failing (outside the try), open(log_file) or the header write failing
OpenOutcomes == {"ok", "makedirs", "open"}

----------------------------------------------------------------------------
(* Spec: a session of the desktop surface.  One worker runs at a time: the *)
(* XLSX load started by Browse, or the batch started by Process.          *)

ExprNames == <<"EXPR1", "EXPR2", "EXPR3", "EXPR4">>

\* A document with one element per expression of the session, all dated v
DocDated(v) ==
    XmlDoc([i \in 1..MaxFiles |->
               Elem("lrvalueadd", [expression |-> <<ExprNames[i]>>,
                                   startEffectiveDate |-> v])])
SessionDocs == {DocDated(<<D2>>), DocDated(<<D1, " ", T0>>), Unparseable}

\* A workbook of one sheet with one row per document, all dated by cell
BookDated(cell) ==
    Workbook(<<Sheet(RequiredColumns, TRUE)>> \o
             [i \in 1..MaxFiles |->
                 Row(StrCell(<<ExprNames[i]>>), StrCell(<<FileNames[i]>>), cell)])
SessionWorkbooks ==
    {BookDated(StrCell(<<D1>>)), BookDated(TimestampCell(D2, T0)),
     UnreadableWorkbook}

\* glob.glob(os.path.join(xml_dir, "*.xml"))
Glob == [i \in 1..MaxFiles |-> <<FileNames[i]>>]

Init ==
    /\ fs \in [XmlFiles -> SessionDocs]
    /\ reference_data = EmptyTable
    /\ out_dir = <<>>
    /\ backup_dir = NoFiles
    /\ log = <<>>
    /\ xlsx = NoWorkbook
    /\ load_ret = "none"
    /\ InitSurface
    /\ InitCalls
    /\ pc = "idle"

\* browse_xlsx_file and _load_xlsx_thread, run to its end
BrowseXlsx(wb) ==
    /\ pc = "idle"
    /\ CallLoad(wb)
    /\ hist' = NoHist
    /\ UNCHANGED <<loop2_i, threads, session, files, surface, draft_src, last_ret, last_in, bounded, pc>>

\* "self.processed_files = []" at the start of a pass
ClearedFiles(old) == <<>>

\* A click on Process starts a worker: the button is enabled and process_files
\* finds its paths valid
ProcessCanStart == process_button = "normal" /\ xlsx.exists

\* process_files and _process_files_thread up to its loop.  The histories
\* start afresh with the batch.
StartBatch ==
    /\ pc = "idle"
    /\ ProcessCanStart
    /\ batches < MaxBatches
    /\ batches' = batches + 1
    /\ xml_files' = Glob
    /\ IF reference_data = EmptyTable
       THEN /\ CallLoad(xlsx)
            /\ hist' = NoHist
       ELSE UNCHANGED <<loader, hist>>
    /\ IF reference_data = EmptyTable /\ load_reference_data(xlsx).ret # "True"
       THEN /\ loop_i' = 0
            /\ UNCHANGED <<processed_files, changes_made, changes_keys, pc>>
       ELSE /\ processed_files' = ClearedFiles(processed_files)
            /\ changes_made' = NoChanges
            /\ changes_keys' = <<>>
            /\ loop_i' = 1
            /\ pc' = "processing"
    /\ batch_hist' = <<>>
    /\ events' = <<>>
    /\ apply_ret' = "none"
    /\ last_ret' = NoCall
    /\ last_in' = NoInput
    /\ UNCHANGED <<loop2_i, threads, apply_msg, reference_data_loaded, pre_commit, files, apply_i,
                   draft_src, failures>>

\* The environment injects at most MaxFailures failures
Inject(outcome) ==
    /\ outcome # "ok" => failures < MaxFailures
    /\ failures' = IF outcome = "ok" THEN failures ELSE failures + 1

\* The outcomes a batch distinguishes: a failure before the draft file
\* exists ("read") and one after mkstemp made it ("write"); "mkstemp" leaves
\* the files and the return of "read"
BatchOutcomes == IoOutcomes \ {"mkstemp"}

\* "self.changes_made[xml_file] = changes": a new key goes to the end of the
\* dict, a key it has keeps its place
KeyNotRecorded(keys, xml_file) == keys
RecordKey(keys, xml_file) ==
    IF xml_file \in Range(keys) THEN keys ELSE Append(keys, xml_file)

\* The body of "for i, xml_file in enumerate(...xml_files)" at index i, the
\* same on both surfaces.  batch_hist follows the pass started last.
LoopBody(i, io, latest) ==
    /\ Inject(io)
    /\ LET xml_file == xml_files[i]
           r == process_xml_file(xml_file, io)
       IN  /\ CallProcess(xml_file, io)
           /\ batch_hist' = IF latest
                            THEN Append(batch_hist,
                                        [xml_file |-> xml_file, failed |-> r.caught,
                                         temp_file |-> r.temp_file, changes |-> r.changes])
                            ELSE batch_hist
           /\ IF ~r.raised /\ r.temp_file # None
              THEN /\ processed_files' = Append(processed_files, r.temp_file)
                   /\ changes_made' =
                        [f \in DOMAIN changes_made \cup {xml_file} |->
                            IF f = xml_file THEN r.changes ELSE changes_made[f]]
                   /\ changes_keys' = RecordKey(changes_keys, xml_file)
              ELSE UNCHANGED <<processed_files, changes_made, changes_keys>>
    /\ UNCHANGED <<threads, apply_msg, reference_data_loaded, pre_commit, backup_dir, log,
                   loader, xml_files, apply_i, apply_ret, events, batches>>

\* One pass of the loop of the first worker or of the web surface
LoopStep(io) ==
    /\ loop_i <= Len(xml_files)
    /\ LoopBody(loop_i, io, loop2_i = 0)
    /\ IF process_xml_file(xml_files[loop_i], io).raised
       THEN pc' = "idle" /\ UNCHANGED loop_i
       ELSE pc' = pc /\ loop_i' = loop_i + 1
    /\ UNCHANGED loop2_i

\* One pass of the loop of _process_files_thread
ProcessNext(io) == pc = "processing" /\ LoopStep(io)

\* After the loop: "No files were processed", or show_preview_window
EndBatch ==
    /\ pc = "processing"
    /\ loop_i > Len(xml_files)
    /\ pc' = IF processed_files = <<>> THEN "idle" ELSE "preview"
    /\ UNCHANGED <<loop2_i, threads, session, files, surface, loader, calls, bounded>>

\* The Cancel button of the preview window
CancelPreview ==
    /\ pc = "preview"
    /\ pc' = "idle"
    /\ UNCHANGED <<loop2_i, threads, session, files, surface, loader, calls, bounded>>

\* confirm_process answered yes: apply_changes up to its loop
ConfirmProcess(outcome) ==
    /\ pc = "preview"
    /\ Inject(outcome)
    /\ events' = <<>>
    /\ hist' = NoHist
    /\ apply_msg' = None
    /\ pre_commit' = fs
    /\ CASE outcome = "makedirs" -> /\ apply_ret' = "raise"
                                    /\ apply_i' = 0
                                    /\ pc' = "preview"
                                    /\ UNCHANGED log
         [] outcome = "open" -> /\ apply_ret' = "False"
                                /\ apply_i' = 0
                                /\ pc' = "idle"
                                /\ UNCHANGED log
         [] outcome = "ok" -> /\ apply_ret' = "none"
                              /\ apply_i' = 1
                              /\ log' = <<>>
                              /\ pc' = "applying"
    /\ UNCHANGED <<loop2_i, threads, changes_keys, reference_data_loaded, fs, out_dir, backup_dir,
                   loader, xml_files, processed_files, changes_made, loop_i,
                   batch_hist, draft_src, last_ret, last_in, batches>>

\* The except clause of apply_changes logs and returns False: the files stay
\* as the failing step left them
RestoredFiles(originals) == pre_commit
FilesAfterExcept(originals) == originals

\* One pass of the loop of apply_changes
ApplyPair(outcome) ==
    /\ pc = "applying"
    /\ apply_i <= Len(processed_files)
    /\ Inject(outcome)
    /\ LET r == apply_pair(apply_i, outcome)
       IN  /\ fs' = IF r.ret = "next" THEN r.fs ELSE FilesAfterExcept(r.fs)
           /\ backup_dir' = r.backup_dir
           /\ log' = r.log
           /\ events' = r.events
           /\ IF r.ret = "next"
              THEN /\ apply_i' = apply_i + 1
                   /\ UNCHANGED <<apply_ret, pc>>
              ELSE /\ apply_ret' = "False"
                   /\ pc' = "idle"
                   /\ UNCHANGED apply_i
    /\ UNCHANGED <<loop2_i, threads, session, out_dir, loader, xml_files, processed_files, changes_made, loop_i,
                   batch_hist, calls, batches>>

\* The count of f"Processing complete. {len(processed_files)} files updated."
CountsAllDocuments(drafts) == Len(xml_files)
SummaryCount(drafts) == Len(drafts)

\* After the loop: return True; the preview window closes
ApplyReturn ==
    /\ pc = "applying"
    /\ apply_i > Len(processed_files)
    /\ apply_ret' = "True"
    /\ apply_msg' = SummaryCount(processed_files)
    /\ pc' = "idle"
    /\ UNCHANGED <<loop2_i, threads, changes_keys, reference_data_loaded, pre_commit, files, loader, xml_files, processed_files, changes_made, loop_i,
                   apply_i, events, batch_hist, calls, bounded>>

Next ==
    \/ \E wb \in SessionWorkbooks : BrowseXlsx(wb)
    \/ StartBatch
    \/ \E io \in BatchOutcomes : ProcessNext(io)
    \/ EndBatch
    \/ CancelPreview
    \/ \E outcome \in OpenOutcomes : ConfirmProcess(outcome)
    \/ \E outcome \in PairOutcomes : ApplyPair(outcome)
    \/ ApplyReturn

Spec == Init /\ [][Next]_vars

----------------------------------------------------------------------------
(* SpecThreads: the Browse and Process buttons of the desktop surface with *)
(* their threads.  The thread started by Browse reads the workbook one     *)
(* sheet or row at a time while the user and the worker of a batch go on;  *)
(* one load thread and one worker run at a time.  The commit is left to    *)
(* Spec: a preview is closed with Cancel.                                  *)

\* browse_xlsx_file, a file chosen: the path is set, the Process button is
\* disabled and the load thread is started
BrowseClick(wb) ==
    /\ load_pc = "idle"
    /\ xlsx' = wb
    /\ is_loading_xlsx' = TRUE
    /\ process_button' = "disabled"
    /\ load_pc' = "open"
    /\ UNCHANGED <<loop2_i, session, files, surface, reference_data, load_ret, load_i, calls, bounded, pc>>

\* The load thread, load_reference_data up to the loop over the sheets:
\* pd.ExcelFile raises, or the table is reset
LoadOpen ==
    /\ load_pc = "open"
    /\ IF ~xlsx.readable
       THEN /\ load_ret' = "raise"
            /\ load_pc' = "finally"
            /\ UNCHANGED <<reference_data, load_i, hist>>
       ELSE /\ reference_data' = ResetTable(reference_data)
            /\ load_i' = 1
            /\ load_pc' = "rows"
            /\ hist' = NoHist
            /\ UNCHANGED load_ret
    /\ UNCHANGED <<loop2_i, session, files, surface, xlsx, draft_src, last_ret, last_in, bounded,
                   is_loading_xlsx, process_button, pc>>

\* The sheet of item i was read and has the required columns
Reading(items, i) ==
    \E j \in 1..(i - 1) :
        /\ IsMark(items[j])
        /\ SheetRead(items[j])
        /\ \A k \in (j + 1)..(i - 1) : ~IsMark(items[k])

\* The load thread: the next sheet is opened or the next row is read
LoadStep ==
    /\ load_pc = "rows"
    /\ load_i <= Len(xlsx.items)
    /\ reference_data' =
          IF IsMark(xlsx.items[load_i]) THEN reference_data
          ELSE LoadItems(reference_data, <<xlsx.items[load_i]>>, Reading(xlsx.items, load_i))
    /\ load_i' = load_i + 1
    /\ UNCHANGED <<loop2_i, session, files, surface, xlsx, load_ret, calls, bounded,
                   is_loading_xlsx, process_button, load_pc, pc>>

\* The load thread after the last sheet: load_reference_data returns
LoadFinish ==
    /\ load_pc = "rows"
    /\ load_i > Len(xlsx.items)
    /\ load_ret' = LoadResult(reference_data)
    /\ load_pc' = "finally"
    /\ UNCHANGED <<loop2_i, session, files, surface, reference_data, xlsx, calls, bounded,
                   is_loading_xlsx, process_button, load_i, pc>>

\* The callbacks the finally clause of _load_xlsx_thread hands to the main
\* loop: the Process button is enabled again
LoadDone ==
    /\ load_pc = "finally"
    /\ process_button' = "normal"
    /\ is_loading_xlsx' = FALSE
    /\ load_pc' = "idle"
    /\ UNCHANGED <<loop2_i, session, files, surface, loader, calls, bounded, load_i, pc>>

NextThreads ==
    \/ \E wb \in SessionWorkbooks : BrowseClick(wb)
    \/ LoadOpen
    \/ LoadStep
    \/ LoadFinish
    \/ LoadDone
    \/ StartBatch
    \/ \E io \in BatchOutcomes : ProcessNext(io)
    \/ EndBatch
    \/ CancelPreview

SpecThreads == Init /\ [][NextThreads]_vars

----------------------------------------------------------------------------
(* SpecWorkers: Process clicked again while the worker of a batch is in    *)
(* its loop.  process_files starts a second _process_files_thread; both    *)
(* threads go through the documents and append to the lists the attributes *)
(* name at that moment.  A preview is closed with Cancel, and no batch is  *)
(* started once a second worker has run.                                   *)

\* process_files while a worker runs, and the second thread up to its loop
SecondStart ==
    /\ pc = "processing"
    /\ ProcessCanStart
    /\ loop2_i = 0
    /\ batches < MaxBatches
    /\ batches' = batches + 1
    /\ xml_files' = Glob
    /\ processed_files' = ClearedFiles(processed_files)
    /\ changes_made' = NoChanges
    /\ changes_keys' = <<>>
    /\ loop2_i' = 1
    /\ batch_hist' = <<>>
    /\ UNCHANGED <<threads, apply_msg, reference_data_loaded, pre_commit, files, loader,
                   loop_i, apply_i, apply_ret, events, calls, failures, pc>>

\* One pass of the loop of the second worker
SecondNext(io) ==
    /\ loop2_i \in 1..Len(xml_files)
    /\ LoopBody(loop2_i, io, TRUE)
    /\ loop2_i' = loop2_i + 1
    /\ UNCHANGED <<loop_i, pc>>

\* Process clicked while no worker runs
FirstStart == loop2_i = 0 /\ StartBatch

NextWorkers ==
    \/ \E wb \in SessionWorkbooks : BrowseXlsx(wb)
    \/ FirstStart
    \/ \E io \in BatchOutcomes : ProcessNext(io)
    \/ EndBatch
    \/ CancelPreview
    \/ SecondStart
    \/ \E io \in BatchOutcomes : SecondNext(io)

SpecWorkers == Init /\ [][NextWorkers]_vars

----------------------------------------------------------------------------
(* SpecWeb: the web surface.  A run of the script constructs the           *)
(* StreamlitXMLProcessor, with a new XMLProcessor, and goes through        *)
(* create_ui once; st.session_state (xml_files, processed_files,           *)
(* changes_made, reference_data_loaded) outlives the run.  What st.button  *)
(* returns is an input of the run: each button is pressed or not.          *)

\* StreamlitXMLProcessor.__init__ and create_ui up to the buttons
WebRun ==
    /\ pc = "idle"
    /\ batches < MaxBatches
    /\ batches' = batches + 1
    /\ reference_data' = EmptyTable
    /\ hist' = NoHist
    /\ xml_files' = Glob
    /\ pc' = "web_ui"
    /\ UNCHANGED <<loop2_i, threads, session, files, xlsx, load_ret, processed_files, changes_made,
                   loop_i, apply_i, apply_ret, events, batch_hist, draft_src, last_ret,
                   last_in, failures>>

\* "Load XLSX Data" pressed
WebLoad(wb) ==
    /\ pc = "web_ui"
    /\ wb.exists
    /\ CallLoad(wb)
    /\ reference_data_loaded' = (reference_data_loaded \/ load_reference_data(wb).ret = "True")
    /\ hist' = NoHist
    /\ pc' = "web_loaded"
    /\ UNCHANGED <<loop2_i, threads, changes_keys, apply_msg, pre_commit, files, surface, draft_src,
                   last_ret, last_in, bounded>>

\* "Process Files" pressed: process_files up to its loop
WebProcess ==
    /\ pc \in {"web_ui", "web_loaded"}
    /\ xml_files # <<>>
    /\ reference_data_loaded
    /\ processed_files' = ClearedFiles(processed_files)
    /\ changes_made' = NoChanges
    /\ changes_keys' = <<>>
    /\ loop_i' = 1
    /\ batch_hist' = <<>>
    /\ events' = <<>>
    /\ last_ret' = NoCall
    /\ last_in' = NoInput
    /\ pc' = "web_processing"
    /\ UNCHANGED <<loop2_i, threads, apply_msg, reference_data_loaded, pre_commit, files, loader,
                   xml_files, apply_i, apply_ret, draft_src, hist, bounded>>

\* One pass of the loop of process_files
WebProcessNext(io) == pc = "web_processing" /\ LoopStep(io)

\* display_preview up to the button: "changes.items()" raises on the list of
\* a document that has changes
PreviewRaises ==
    \E i \in 1..Len(processed_files) :
        /\ xml_files[i] \in DOMAIN changes_made
        /\ changes_made[xml_files[i]] # <<>>

\* After the loop: the warning, the preview, or the except clause of the
\* Process button
WebPreview ==
    /\ pc = "web_processing"
    /\ loop_i > Len(xml_files)
    /\ pc' = IF processed_files = <<>> \/ PreviewRaises THEN "idle" ELSE "web_preview"
    /\ UNCHANGED <<loop2_i, threads, session, files, surface, loader, calls, bounded>>

\* The run ends with no further button pressed
WebRunEnds ==
    /\ pc \in {"web_ui", "web_loaded", "web_preview"}
    /\ pc' = "idle"
    /\ UNCHANGED <<loop2_i, threads, session, files, surface, loader, calls, bounded>>

WebOutcomes == {"ok", "fail"}

\* "Apply All Changes" pressed: the timestamped backup directory is made
WebApply(outcome) ==
    /\ pc = "web_preview"
    /\ Inject(IF outcome = "ok" THEN "ok" ELSE "makedirs")
    /\ events' = <<>>
    /\ pre_commit' = fs
    /\ IF outcome = "ok"
       THEN /\ backup_dir' = NoFiles
            /\ apply_i' = 1
            /\ pc' = "web_backup"
       ELSE /\ pc' = "idle"
            /\ UNCHANGED <<backup_dir, apply_i>>
    /\ UNCHANGED <<loop2_i, threads, changes_keys, apply_msg, reference_data_loaded, fs, out_dir, log,
                   loader, xml_files, processed_files, changes_made, loop_i, apply_ret,
                   batch_hist, calls, batches>>

WebCopyEvent(op, orig, draft, ok) ==
    [op |-> op, index |-> apply_i, orig |-> orig, draft |-> draft, ok |-> ok,
     before |-> fs[orig]]

\* One pass of "for xml_file in st.session_state.xml_files"
WebBackup(outcome) ==
    /\ pc = "web_backup"
    /\ apply_i <= Len(xml_files)
    /\ LET xml_file == xml_files[apply_i]
           copies == xml_file \in DOMAIN changes_made
       IN  /\ Inject(IF copies /\ outcome # "ok" THEN "backup" ELSE "ok")
           /\ ~copies => outcome = "ok"
           /\ events' = IF copies
                        THEN Append(events, WebCopyEvent("backup", xml_file, None, outcome = "ok"))
                        ELSE events
           /\ backup_dir' = IF copies /\ outcome = "ok"
                            THEN [f \in DOMAIN backup_dir \cup {BaseName(xml_file)} |->
                                     IF f = BaseName(xml_file) THEN fs[xml_file]
                                     ELSE backup_dir[f]]
                            ELSE backup_dir
    /\ IF outcome = "ok"
       THEN apply_i' = apply_i + 1 /\ pc' = pc
       ELSE pc' = "idle" /\ UNCHANGED apply_i
    /\ UNCHANGED <<loop2_i, threads, session, fs, out_dir, log, loader, xml_files, processed_files,
                   changes_made, loop_i, apply_ret, batch_hist, calls, batches>>

\* The first loop is through: on to the second
WebBackupDone ==
    /\ pc = "web_backup"
    /\ apply_i > Len(xml_files)
    /\ apply_i' = 1
    /\ pc' = "web_overwrite"
    /\ UNCHANGED <<loop2_i, threads, session, files, loader, xml_files, processed_files, changes_made,
                   loop_i, apply_ret, events, batch_hist, calls, bounded>>

\* One pass of "for i, processed_file in enumerate(...processed_files)"; the
\* draft exists
WebOverwrite(outcome) ==
    /\ pc = "web_overwrite"
    /\ apply_i <= Len(processed_files)
    /\ Inject(IF outcome = "ok" THEN "ok" ELSE "overwrite")
    /\ LET original_file == xml_files[apply_i]
           processed_file == processed_files[apply_i]
       IN  /\ events' = Append(events, WebCopyEvent("overwrite", original_file,
                                                    processed_file, outcome = "ok"))
           /\ fs' = IF outcome = "ok"
                    THEN [fs EXCEPT ![original_file] = out_dir[processed_file]]
                    ELSE fs
    /\ IF outcome = "ok"
       THEN apply_i' = apply_i + 1 /\ pc' = pc
       ELSE pc' = "idle" /\ UNCHANGED apply_i
    /\ UNCHANGED <<loop2_i, threads, session, out_dir, backup_dir, log, loader, xml_files,
                   processed_files, changes_made, loop_i, apply_ret, batch_hist, calls,
                   batches>>

\* "Changes applied."
WebApplied ==
    /\ pc = "web_overwrite"
    /\ apply_i > Len(processed_files)
    /\ pc' = "idle"
    /\ UNCHANGED <<loop2_i, threads, session, files, surface, loader, calls, bounded>>

NextWeb ==
    \/ WebRun
    \/ \E wb \in SessionWorkbooks : WebLoad(wb)
    \/ WebProcess
    \/ \E io \in BatchOutcomes : WebProcessNext(io)
    \/ WebPreview
    \/ WebRunEnds
    \/ \E outcome \in WebOutcomes : WebApply(outcome)
    \/ \E outcome \in WebOutcomes : WebBackup(outcome)
    \/ WebBackupDone
    \/ \E outcome \in WebOutcomes : WebOverwrite(outcome)
    \/ WebApplied

SpecWeb == Init /\ [][NextWeb]_vars

----------------------------------------------------------------------------
(* Claims about process_xml_file, stated on the last call: last_in holds   *)
(* the document and table it was given, last_ret what it returned, out_dir *)
(* the drafts.                                                             *)

\* The call got through parsing and met no IO failure
CallRan == pc = "returned" /\ last_in.io = "ok" /\ last_in.doc.ok

InElems == last_in.doc.elems
InBase == BaseName(last_in.xml_file)

\* The table has an entry for element k of the document
HasEntry(k) ==
    /\ InElems[k].tag = "lrvalueadd"
    /\ "expression" \in DOMAIN InElems[k].attrs
    /\ InElems[k].attrs.expression # <<>>
    /\ InElems[k].attrs.expression \in DOMAIN last_in.ref

\* ... and the entry names the document processed
Applies(k) == HasEntry(k) /\ last_in.ref[InElems[k].attrs.expression].file = InBase

RawOld(k) ==
    IF "startEffectiveDate" \in DOMAIN InElems[k].attrs
    THEN InElems[k].attrs.startEffectiveDate ELSE <<>>
RawNew(k) == last_in.ref[InElems[k].attrs.expression].date

\* The draft of the call, when it returned one
HasDraft == last_ret.temp_file # None
DraftElems == out_dir[last_ret.temp_file].elems

\* The text before the first space
RECURSIVE BeforeSpace(_)
BeforeSpace(s) ==
    IF s = <<>> \/ Head(s) = " " THEN <<>> ELSE <<Head(s)>> \o BeforeSpace(Tail(s))

\* The value without surrounding whitespace and, when a space is left in it,
\* cut at its first whitespace character
RECURSIVE BeforeWhitespace(_)
BeforeWhitespace(s) ==
    IF s = <<>> \/ Head(s) \in {" ", "\t"} THEN <<>>
    ELSE <<Head(s)>> \o BeforeWhitespace(Tail(s))
TrimmedDatePortion(s) ==
    LET t == Strip(s)
    IN  IF \E i \in 1..Len(t) : t[i] = " " THEN BeforeWhitespace(t) ELSE t

\* The elements the claim says are changed, under a reading Portion of
\* "the date portion"
DiffersLiteral(k) == Applies(k) /\ BeforeSpace(RawOld(k)) # BeforeSpace(RawNew(k))
DiffersTrimmed(k) ==
    Applies(k) /\ TrimmedDatePortion(RawOld(k)) # TrimmedDatePortion(RawNew(k))

\* C5 (as claimed): an element the table applies to gets a ChangeRecord, and
\* is mutated, exactly when its startEffectiveDate and the reference date
\* differ once the text after the first space is dropped from both.
C5_ChangeIffDateBeforeFirstSpaceDiffers ==
    CallRan =>
        /\ Len(last_ret.changes) = Cardinality({k \in 1..Len(InElems) : DiffersLiteral(k)})
        /\ HasDraft => \A k \in 1..Len(InElems) :
                          (DraftElems[k] # InElems[k]) <=> DiffersLiteral(k)

\* C5 (amended): an element the table applies to gets a ChangeRecord, and is
\* mutated, exactly when the two values differ once each is trimmed of
\* surrounding whitespace and, if it then still holds a space, cut at its
\* first whitespace character; with equal date portions there is neither a
\* ChangeRecord nor a mutation.
C5_ChangeIffDatePortionDiffers ==
    CallRan =>
        /\ Len(last_ret.changes) = Cardinality({k \in 1..Len(InElems) : DiffersTrimmed(k)})
        /\ \A j \in 1..Len(last_ret.changes) :
              \E k \in 1..Len(InElems) :
                  /\ DiffersTrimmed(k)
                  /\ last_ret.changes[j].expression = InElems[k].attrs.expression
        /\ HasDraft => \A k \in 1..Len(InElems) :
                          (DraftElems[k] # InElems[k]) <=> DiffersTrimmed(k)

\* C5 witness: the call met an element whose value carries a time of day
\* after the reference date, and returned no change
C5_Witness ==
    /\ CallRan
    /\ Len(InElems) = 1
    /\ Applies(1)
    /\ RawOld(1) = <<D1, " ", D2>>
    /\ RawNew(1) = <<D1>>
    /\ last_ret.changes = <<>>
    /\ ~HasDraft

\* C6: process_xml_file returns a draft path exactly when it returns a
\* non-empty ChangeRecord list; returning normally with no change it writes
\* no file; with changes it writes exactly one new file in output_dir, the
\* one it returns, in which every element the table applies to carries the
\* reference date.
C6_DraftIffChanges ==
    pc = "returned" =>
        /\ HasDraft <=> last_ret.changes # <<>>
        /\ (~HasDraft /\ last_in.io = "ok") => out_dir = SubSeq(out_dir, 1, last_in.out_len)
        /\ HasDraft =>
              /\ Len(out_dir) = last_in.out_len + 1
              /\ last_ret.temp_file = Len(out_dir)
              /\ out_dir[last_ret.temp_file].ok
              /\ Len(DraftElems) = Len(InElems)
              /\ \A k \in 1..Len(InElems) :
                    Applies(k) =>
                        DraftElems[k].attrs.startEffectiveDate = TrimmedDatePortion(RawNew(k))

\* C6 witness: a call on a two-element document returned a draft with one change
C6_Witness ==
    /\ CallRan
    /\ HasDraft
    /\ Len(InElems) = 2
    /\ Len(last_ret.changes) = 1
    /\ Len(out_dir) = 1

\* C7: an element whose expression is in the table under another file's
\* name is left as it is and no ChangeRecord is made from an entry that
\* names another file.
C7_OnlyEntriesOfThisFile ==
    CallRan =>
        /\ \A j \in 1..Len(last_ret.changes) :
              last_in.ref[last_ret.changes[j].expression].file = InBase
        /\ Len(last_ret.changes) <= Cardinality({k \in 1..Len(InElems) : Applies(k)})
        /\ HasDraft => \A k \in 1..Len(InElems) :
                          (HasEntry(k) /\ ~Applies(k)) => DraftElems[k] = InElems[k]

\* C7 witness: the document holds an element whose entry names another file
\* and whose date differs from the entry's, next to one that was changed; the
\* draft keeps the first as it was
C7_Witness ==
    /\ CallRan
    /\ HasDraft
    /\ \E k \in 1..Len(InElems) :
          /\ HasEntry(k)
          /\ ~Applies(k)
          /\ TrimmedDatePortion(RawOld(k)) # TrimmedDatePortion(RawNew(k))
          /\ DraftElems[k] = InElems[k]

----------------------------------------------------------------------------
(* Claims about apply_changes, stated on the copies of the current call    *)
(* (events) and on what it returned (apply_ret)                            *)

\* C1: in apply_changes a draft is copied over an original only after that
\* same original was copied into backup_dir, successfully and earlier in the
\* same call, and the backup holds what the original held; when the backup
\* copy of a file fails, the original still holds what it held.
C1_BackupBeforeOverwrite ==
    \A j \in 1..Len(events) :
        /\ events[j].op = "overwrite" =>
              \E i \in 1..(j - 1) :
                  /\ events[i].op = "backup"
                  /\ events[i].ok
                  /\ events[i].orig = events[j].orig
                  /\ BaseName(events[j].orig) \in DOMAIN backup_dir
                  /\ backup_dir[BaseName(events[j].orig)] = events[i].before
        /\ (events[j].op = "backup" /\ ~events[j].ok) =>
              fs[events[j].orig] = events[j].before

\* C1 witness: the call replaced one original after backing it up, then the
\* backup of the next one failed and that original is as it was
C1_Witness ==
    /\ apply_ret = "False"
    /\ Len(events) = 3
    /\ events[2].op = "overwrite" /\ events[2].ok
    /\ events[3].op = "backup" /\ ~events[3].ok
    /\ fs[events[3].orig] = events[3].before
    /\ fs[events[2].orig] # events[2].before

\* C2: the commit of the desktop surface overwrites each original only with
\* the draft process_xml_file made from that same original.
C2_OriginalGetsItsOwnDraft ==
    \A j \in 1..Len(events) :
        (events[j].op = "overwrite" /\ events[j].ok) =>
            draft_src[events[j].draft] = events[j].orig

\* C3: when the backup or the overwrite of one pair fails, every later pair
\* of the list is still attempted in the same call.
C3_LaterPairsStillAttempted ==
    (apply_ret = "False" /\ events # <<>> /\ ~events[Len(events)].ok) =>
        \A i \in 1..Len(processed_files) :
            \E j \in 1..Len(events) : events[j].index = i

\* C4: apply_changes never raises; every failure becomes a returned False.
C4_ApplyNeverRaises == apply_ret # "raise"

----------------------------------------------------------------------------
(* Claims about the batch loop of the desktop surface *)

DraftsOf(xml_file) ==
    {k \in 1..Len(processed_files) : draft_src[processed_files[k]] = xml_file}

\* C8: a document whose processing hits a parse or IO failure makes
\* process_xml_file return (None, []) without raising; the loop goes on to
\* every remaining document; the failed document has no entry in
\* processed_files or changes_made.
C8_FailedDocumentIsSkipped ==
    /\ ~last_ret.raised
    /\ last_ret.caught => (last_ret.temp_file = None /\ last_ret.changes = <<>>)
    /\ pc = "processing" => Len(batch_hist) = loop_i - 1
    /\ (pc # "processing" /\ loop_i # 0) => Len(batch_hist) = Len(xml_files)
    /\ \A k \in 1..Len(batch_hist) :
          /\ batch_hist[k].xml_file = xml_files[k]
          /\ batch_hist[k].failed =>
                /\ batch_hist[k].xml_file \notin DOMAIN changes_made
                /\ DraftsOf(batch_hist[k].xml_file) = {}

\* C8 witness: the first document failed, the batch went on and made a draft
\* of the second, and the preview is open
C8_Witness ==
    /\ pc = "preview"
    /\ Len(batch_hist) = Len(xml_files)
    /\ batch_hist[1].failed
    /\ batch_hist[2].temp_file # None
    /\ DOMAIN changes_made = {batch_hist[2].xml_file}

\* C9: with no load and no commit in between, a later call of
\* process_xml_file on a document returns the ChangeRecords the earlier call
\* on it returned.
C9_RepeatedCallSameChanges ==
    [][\A f \in XmlFiles :
          (hist[f].calls >= 1 /\ hist'[f].calls >= 1) =>
              hist'[f].changes = hist[f].changes]_vars

\* C9 witness: a document was processed twice and both calls returned changes
C9_Witness ==
    \E f \in XmlFiles : hist[f].calls = 2 /\ hist[f].changes # <<>>

----------------------------------------------------------------------------
(* Claims about load_reference_data *)

LoadReturned == pc \in {"loaded", "reloaded"} /\ load_ret # "raise"

\* YYYY-MM-DD and nothing else
IsYMD(s) == s \in {<<D1>>, <<D2>>}

\* C10: after load_reference_data returns, every stored date is in
\* YYYY-MM-DD form with no time of day, whatever the cell held.
C10_StoredDatesAreYMD ==
    LoadReturned => \A e \in DOMAIN reference_data : IsYMD(reference_data[e].date)

----------------------------------------------------------------------------
(* Claims about load_reference_data, stated on the workbook of the call    *)
(* (xlsx) read item by item                                                *)

Items == xlsx.items

\* The sheet that item i stands in: the last sheet mark before it (0: none)
SheetAt(i) ==
    LET marks == {j \in 1..(i - 1) : IsMark(Items[j])}
    IN  IF marks = {} THEN 0 ELSE CHOOSE j \in marks : \A k \in marks : k <= j

\* A sheet that pandas reads and that has the three required columns
GoodSheet(j) == Items[j].sheet /\ Items[j].columns = RequiredColumns

\* Item i is a row of such a sheet
IsReadRow(i) == ~IsMark(Items[i]) /\ SheetAt(i) # 0 /\ GoodSheet(SheetAt(i))

\* The cell holds text that is empty once trimmed
BlankText(cell) == cell.kind = "str" /\ Strip(cell.str) = <<>>

\* The text a cell is stored as
Stored(cell) == Strip(PyStr(cell))

\* A row the loader takes as valid: it stands in a sheet that is read and
\* neither its expression nor its base filename is blank text
ValidRow(i) ==
    /\ IsReadRow(i)
    /\ ~BlankText(Items[i].Expression)
    /\ ~BlankText(Items[i].BaseFilename)

KeyOf(i) == Stored(Items[i].Expression)

\* The cell is empty (a missing value)
EmptyCell(cell) == cell.kind = "nan"

\* No cell of row i is empty or blank
FullRow(i) ==
    \A cell \in {Items[i].Expression, Items[i].BaseFilename, Items[i].SrcDate} :
        ~EmptyCell(cell) /\ ~BlankText(cell)

\* A valid row: it stands in a sheet that is read and has an expression, a
\* base filename and a date
UsableRow(i) == IsReadRow(i) /\ FullRow(i)

\* The last valid row, in sheet order then row order, with the key of row i
LastWithKey(i) ==
    CHOOSE j \in 1..Len(Items) :
        /\ UsableRow(j) /\ KeyOf(j) = KeyOf(i)
        /\ \A k \in 1..Len(Items) : (UsableRow(k) /\ KeyOf(k) = KeyOf(i)) => k <= j

\* C11: when several valid rows of one load share a trimmed expression key,
\* within one sheet or across sheets, the table has one entry for the key and
\* its file and date are those of the last such row in sheet order then row
\* order.
C11_LastRowWins ==
    LoadReturned =>
        \A i \in 1..Len(Items) :
            (/\ UsableRow(i)
             /\ \E j \in 1..Len(Items) : j # i /\ UsableRow(j) /\ KeyOf(j) = KeyOf(i)) =>
                /\ KeyOf(i) \in DOMAIN reference_data
                /\ reference_data[KeyOf(i)] =
                      [file |-> Stored(Items[LastWithKey(i)].BaseFilename),
                       date |-> Stored(Items[LastWithKey(i)].SrcDate)]

\* The keys the valid rows of the workbook give
SourceKeys == {KeyOf(i) : i \in {j \in 1..Len(Items) : ValidRow(j)}}

\* C12: every load_reference_data call that completes builds the table from
\* scratch: afterwards the table has an entry exactly for the keys of the
\* rows of that call's workbook, none left over from an earlier load, and
\* loading the same workbook again gives the same table.
C12_LoadBuildsFromScratch ==
    [][/\ LoadReturned' => DOMAIN reference_data' = SourceKeys'
       /\ (pc = "loaded" /\ pc' = "reloaded" /\ load_ret # "raise") =>
             (reference_data' = reference_data /\ load_ret' = load_ret)]_vars

\* C12 witness: the workbook was loaded a second time and the table holds
\* its two keys and not the key of the table that was there before
C12_Witness ==
    /\ pc = "reloaded"
    /\ load_ret = "True"
    /\ DOMAIN reference_data = {EXPR1, EXPR2}
    /\ SourceKeys = {EXPR1, EXPR2}
    /\ DOMAIN EarlierTable \cap DOMAIN reference_data = {}

\* A sheet that pandas reads and whose columns are named Work, File, SRCDate
AliasSheet(j) == Items[j].sheet /\ Items[j].columns = {"Work", "File", "SRCDate"}

\* C13: the rows of a sheet whose columns are named Work, File and SRCDate
\* are loaded: the columns resolve to the expression, the base filename and
\* the date, and the sheet is not skipped.
C13_AliasColumnsAreLoaded ==
    LoadReturned =>
        \A i \in 1..Len(Items) :
            (/\ ~IsMark(Items[i])
             /\ SheetAt(i) # 0
             /\ AliasSheet(SheetAt(i))
             /\ FullRow(i)) => KeyOf(i) \in DOMAIN reference_data

\* C14: a row whose expression cell or date cell is empty adds no entry:
\* every entry of the table has the file and date of a row of its key in
\* which neither of the two cells is empty.
C14_EmptyCellRowsAddNoEntry ==
    LoadReturned =>
        \A e \in DOMAIN reference_data :
            \E i \in 1..Len(Items) :
                /\ IsReadRow(i)
                /\ ~EmptyCell(Items[i].Expression)
                /\ ~EmptyCell(Items[i].SrcDate)
                /\ KeyOf(i) = e
                /\ reference_data[e] = [file |-> Stored(Items[i].BaseFilename),
                                        date |-> Stored(Items[i].SrcDate)]

\* A sheet that lacks a required column, or on which pd.read_excel raises
BadSheet(j) == IsMark(Items[j]) /\ ~GoodSheet(j)

\* C15: a sheet that lacks a required column, or whose processing raises, is
\* skipped and the load goes on: the call on a readable workbook does not
\* raise, and the key of every valid row of every other sheet, before and
\* after the skipped one, is in the table when the call returns.
C15_BadSheetIsSkipped ==
    (pc \in {"loaded", "reloaded"} /\ xlsx.readable) =>
        /\ load_ret # "raise"
        /\ \A i \in 1..Len(Items) : ValidRow(i) => KeyOf(i) \in DOMAIN reference_data
        /\ \A e \in DOMAIN reference_data : \E i \in 1..Len(Items) : IsReadRow(i) /\ KeyOf(i) = e

\* C15 witness: a sheet with a row, then a sheet that lacks a column, then a
\* sheet with a row of another key; the table has both keys
C15_Witness ==
    /\ pc = "loaded"
    /\ load_ret = "True"
    /\ Len(Items) = 5
    /\ ValidRow(2) /\ BadSheet(3) /\ Items[3].sheet /\ ValidRow(5)
    /\ KeyOf(2) # KeyOf(5)
    /\ DOMAIN reference_data = {KeyOf(2), KeyOf(5)}

\* C16: load_reference_data returns False, with an empty table, exactly when
\* no sheet gives a valid row; it returns True exactly when the table is not
\* empty; it raises exactly when the workbook as a whole cannot be opened,
\* never because of a row or a sheet.
C16_LoadReturn ==
    pc \in {"loaded", "reloaded"} =>
        /\ load_ret \in {"True", "False", "raise"}
        /\ load_ret = "raise" <=> ~xlsx.readable
        /\ load_ret = "False" <=>
              (xlsx.readable /\ \A i \in 1..Len(Items) : ~UsableRow(i))
        /\ load_ret = "False" => reference_data = EmptyTable
        /\ load_ret = "True" <=> (xlsx.readable /\ reference_data # EmptyTable)

----------------------------------------------------------------------------
(* Claims about the commit of a batch of the desktop surface *)

\* The log lists change k of document f under the header of f
Logged(f, k) ==
    \E j \in 1..Len(log) :
        /\ log[j].file = BaseName(f)
        /\ \E m \in 1..Len(log[j].changes) : log[j].changes[m] = changes_made[f][k]

\* C17: after apply_changes returned True for a batch, the log it wrote
\* lists every ChangeRecord of changes_made under the header of the file
\* the record belongs to.
C17_LogListsEveryChange ==
    apply_ret = "True" =>
        \A f \in DOMAIN changes_made :
            \A k \in 1..Len(changes_made[f]) : Logged(f, k)

\* C18: apply_changes copies into backup_dir, and overwrites, only documents
\* with a recorded change: a document of which process_xml_file made no
\* draft is neither backed up nor overwritten.
C18_CommitTouchesOnlyChanged ==
    \A j \in 1..Len(events) :
        /\ events[j].orig \in DOMAIN changes_made
        /\ DraftsOf(events[j].orig) # {}

\* C19: when the load of the workbook failed because it is unreadable, a
\* batch started after it makes no process_xml_file call (no later load
\* having succeeded).
C19_NoBatchAfterUnreadableLoad ==
    (load_ret = "raise" /\ pc = "processing") => batch_hist = <<>>

----------------------------------------------------------------------------
(* Claims about the threads of the desktop surface *)

\* The worker of a batch is between its first and its last process_xml_file
\* call
BatchReads == pc = "processing" /\ batch_hist # <<>> /\ loop_i <= Len(xml_files)

\* C20: under any interleaving of Browse and Process, no load_reference_data
\* call resets or fills reference_data while the worker of a batch is
\* between its first and its last process_xml_file call: the table stays as
\* it is for every document of the batch.
C20_TableStableWhileBatchReads ==
    [][BatchReads => reference_data' = reference_data]_vars

----------------------------------------------------------------------------
(* Claims about the session state of a reconcile pass *)

\* Call k of the current pass returned a draft
MadeDraft(k) == batch_hist[k].temp_file # None

\* C21: processed_files and changes_made are emptied when a reconcile pass
\* starts: from then on they hold the drafts and ChangeRecords the calls of
\* that pass (batch_hist) returned and nothing of another batch.
C21_SessionStateOfThisPassOnly ==
    loop_i # 0 =>
        /\ Len(processed_files) = Cardinality({k \in 1..Len(batch_hist) : MadeDraft(k)})
        /\ \A i \in 1..Len(processed_files) :
              \E k \in 1..Len(batch_hist) : batch_hist[k].temp_file = processed_files[i]
        /\ DOMAIN changes_made =
              {batch_hist[k].xml_file : k \in {j \in 1..Len(batch_hist) : MadeDraft(j)}}
        /\ \A k \in 1..Len(batch_hist) :
              MadeDraft(k) => changes_made[batch_hist[k].xml_file] = batch_hist[k].changes

----------------------------------------------------------------------------
(* Claims about what one call of process_xml_file touches *)

\* C22: process_xml_file leaves every element untouched whose expression
\* has no entry in the table or whose entry names another file; a returned
\* draft differs from the input in nothing but the startEffectiveDate of
\* matched elements; the original file is not written, whatever the outcome.
C22_OnlyMatchedDatesDiffer ==
    /\ pc = "returned" => fs[last_in.xml_file] = last_in.doc
    /\ (CallRan /\ HasDraft) =>
          /\ Len(DraftElems) = Len(InElems)
          /\ \A k \in 1..Len(InElems) :
                /\ ~Applies(k) => DraftElems[k] = InElems[k]
                /\ DraftElems[k].tag = InElems[k].tag
                /\ DOMAIN DraftElems[k].attrs \subseteq
                      DOMAIN InElems[k].attrs \cup {"startEffectiveDate"}
                /\ \A a \in DOMAIN InElems[k].attrs \ {"startEffectiveDate"} :
                      DraftElems[k].attrs[a] = InElems[k].attrs[a]

\* C22 witness: a draft in which one element got a new date while another,
\* whose table entry names a different file, is the same as in the input
C22_Witness ==
    /\ CallRan /\ HasDraft
    /\ \E j, k \in 1..Len(InElems) :
          /\ Applies(j) /\ DraftElems[j] # InElems[j]
          /\ HasEntry(k) /\ ~Applies(k) /\ DraftElems[k] = InElems[k]
    /\ fs[last_in.xml_file] = last_in.doc

----------------------------------------------------------------------------
(* Claims about what apply_changes returns *)

\* The originals the call copied a draft over
Overwritten == {events[j].orig : j \in {n \in 1..Len(events) :
                                          events[n].op = "overwrite" /\ events[n].ok}}

\* C23: apply_changes returns True only when every draft of the list was,
\* with the original paired with it, backed up and then copied over that
\* original; the count of its message is the number of originals overwritten.
C23_TrueMeansAllCopied ==
    apply_ret = "True" =>
        /\ \A i \in 1..Len(processed_files) :
              \E j, k \in 1..Len(events) :
                  /\ j < k
                  /\ events[j].op = "backup" /\ events[j].ok
                  /\ events[k].op = "overwrite" /\ events[k].ok
                  /\ events[j].draft = processed_files[i]
                  /\ events[k].draft = processed_files[i]
                  /\ events[j].orig = events[k].orig
                  /\ fs[events[k].orig] = out_dir[processed_files[i]]
        /\ apply_msg = Cardinality(Overwritten)

\* C23 witness: a commit of one draft, made in a directory of two documents,
\* returned True with the count 1
C23_Witness ==
    /\ apply_ret = "True"
    /\ Len(xml_files) = 2
    /\ Len(processed_files) = 1
    /\ apply_msg = 1
    /\ Cardinality(Overwritten) = 1

----------------------------------------------------------------------------
(* Claims about the busy flag of the desktop surface *)

\* A thread started by Browse or by Process is running
WorkerRuns == pc = "processing" \/ load_pc \in {"open", "rows"}

\* C24: while a worker thread of the desktop surface runs, the Process
\* operation cannot be started.
C24_NoProcessWhileWorkerRuns == WorkerRuns => ~ProcessCanStart

----------------------------------------------------------------------------
(* Claims about "Apply All Changes" of the web surface *)

\* C25: "Apply All Changes" copies a draft over an original only after it
\* copied that original into the timestamped backup directory.
C25_WebBackupBeforeOverwrite ==
    \A j \in 1..Len(events) :
        events[j].op = "overwrite" =>
            \E i \in 1..(j - 1) :
                /\ events[i].op = "backup"
                /\ events[i].ok
                /\ events[i].orig = events[j].orig

----------------------------------------------------------------------------
(* Claims about a commit and the documents afterwards *)

\* The ChangeRecords process_xml_file returns for document f as it is now,
\* under the table of the pass
Reprocessed(f) == ReconcileAll(fs[f].elems, last_in.ref, BaseName(f)).changes

\* The documents of a commit: those the pass recorded changes for and those
\* the commit wrote
Committed == DOMAIN changes_made \cup Overwritten

\* C26: after a reconcile pass and a successful commit, process_xml_file on
\* any committed document returns no ChangeRecord (and so no draft).
C26_CommitReachesFixpoint ==
    apply_ret = "True" =>
        \A f \in Committed : fs[f].ok => Reprocessed(f) = <<>>


\* C27: when apply_changes returns False because the step of pair k failed,
\* the originals at later positions are as they were before the call, and
\* every original at an earlier position holds the draft copied over it and
\* has its content from before the call in backup_dir.
C27_PartialCommitIsLeft ==
    (apply_ret = "False" /\ apply_i >= 1) =>
        /\ \A i \in (apply_i + 1)..Len(xml_files) :
              fs[xml_files[i]] = pre_commit[xml_files[i]]
        /\ \A i \in 1..(apply_i - 1) :
              /\ fs[xml_files[i]] = out_dir[processed_files[i]]
              /\ BaseName(xml_files[i]) \in DOMAIN backup_dir
              /\ backup_dir[BaseName(xml_files[i])] = pre_commit[xml_files[i]]

\* C27 witness: the call failed at its second pair; the first original was
\* replaced and its earlier content is in backup_dir
C27_Witness ==
    /\ apply_ret = "False"
    /\ apply_i = 2
    /\ fs[xml_files[1]] # pre_commit[xml_files[1]]
    /\ fs[xml_files[1]] = out_dir[processed_files[1]]
    /\ backup_dir[BaseName(xml_files[1])] = pre_commit[xml_files[1]]

----------------------------------------------------------------------------
(* Claims about the lists after a pass *)

\* The loop of every worker started is through
PassCompleted ==
    /\ loop_i # 0
    /\ loop_i > Len(xml_files)
    /\ loop2_i \notin 1..Len(xml_files)

\* C28: after a completed reconcile pass processed_files has as many drafts
\* as changes_made has keys, every value of changes_made is a non-empty list
\* of ChangeRecords, and the i-th draft was made from the i-th key of
\* changes_made in insertion order.
C28_ListsAgreeAfterPass ==
    PassCompleted =>
        /\ Len(processed_files) = Cardinality(DOMAIN changes_made)
        /\ Len(changes_keys) = Cardinality(DOMAIN changes_made)
        /\ Range(changes_keys) = DOMAIN changes_made
        /\ \A f \in DOMAIN changes_made : changes_made[f] # <<>>
        /\ \A i \in 1..Len(processed_files) :
              /\ i <= Len(changes_keys)
              /\ draft_src[processed_files[i]] = changes_keys[i]

----------------------------------------------------------------------------
(* Claims about the ChangeRecords of one call *)

\* C29 (as claimed): every ChangeRecord names the attribute
\* startEffectiveDate and an expression of the table whose entry names the
\* document; its new_value has no whitespace-separated time component, its
\* old_value is the full previous value of the attribute (empty when the
\* element had none), and the date portion of old_value differs from
\* new_value.
C29_ChangeRecordHoldsFullOldValue ==
    CallRan =>
        \A j \in 1..Len(last_ret.changes) :
            LET c == last_ret.changes[j]
            IN  /\ c.attribute = "startEffectiveDate"
                /\ c.expression \in DOMAIN last_in.ref
                /\ last_in.ref[c.expression].file = InBase
                /\ Range(c.new_value) \cap Whitespace = {}
                /\ \E k \in 1..Len(InElems) :
                      /\ Applies(k)
                      /\ InElems[k].attrs.expression = c.expression
                      /\ c.old_value = RawOld(k)
                /\ TrimmedDatePortion(c.old_value) # c.new_value

\* C29 (amended): as above, but new_value is the reference date trimmed and,
\* if a space is left in it, cut at its first whitespace character, so that
\* it holds no space; and old_value is the previous value of the attribute
\* trimmed of surrounding whitespace.
C29_ChangeRecordHoldsTrimmedOldValue ==
    CallRan =>
        \A j \in 1..Len(last_ret.changes) :
            LET c == last_ret.changes[j]
            IN  /\ c.attribute = "startEffectiveDate"
                /\ c.expression \in DOMAIN last_in.ref
                /\ last_in.ref[c.expression].file = InBase
                /\ " " \notin Range(c.new_value)
                /\ c.new_value = TrimmedDatePortion(last_in.ref[c.expression].date)
                /\ \E k \in 1..Len(InElems) :
                      /\ Applies(k)
                      /\ InElems[k].attrs.expression = c.expression
                      /\ c.old_value = Strip(RawOld(k))
                      /\ HasDraft
                      /\ DraftElems[k].attrs.startEffectiveDate = c.new_value
                /\ TrimmedDatePortion(c.old_value) # c.new_value

\* C29 witness: the element carried a date after a leading space, and the
\* ChangeRecord holds the date without the space
C29_Witness ==
    /\ CallRan
    /\ Len(InElems) = 1
    /\ RawOld(1) = <<" ", D2>>
    /\ Len(last_ret.changes) = 1
    /\ last_ret.changes[1].old_value = <<D2>>
    /\ last_ret.changes[1].new_value = <<D1>>

====
